---- MODULE Spec2Model ----
(***************************************************************************)
(* JSSE, the Javascript Simple Search Engine (src/jsse.js): an in-memory   *)
(* inverted index with add / remove / clear / getWords / match.            *)
(*                                                                         *)
(* A JavaScript string is modelled as the sequence of its characters, each *)
(* character a one-character TLA+ string, so that toLowerCase, the regexp  *)
(* replace, trim, split and indexOf are computed character by character.   *)
(* A JavaScript object used as a map (the collection, an index, the keys   *)
(* map built by match) is modelled as a sequence of entries in insertion   *)
(* order, which is the order for..in enumerates non-numeric property names *)
(* in.  The words and keys drawn below are never array indices and never   *)
(* names of Object.prototype properties.                                   *)
(***************************************************************************)
EXTENDS Integers, Sequences, FiniteSets, TLC

VARIABLES size, collection, keys, returned, last, added, exact, docs, onlyAdds,
          ncalls, step

vars ==
    <<size, collection, keys, returned, last, added, exact, docs, onlyAdds,
      ncalls, step>>

-----------------------------------------------------------------------------
(* Characters and the string primitives of the host language.              *)

LowerChars ==
    <<"a","b","c","d","e","f","g","h","i","j","k","l","m",
      "n","o","p","q","r","s","t","u","v","w","x","y","z">>

UpperChars ==
    <<"A","B","C","D","E","F","G","H","I","J","K","L","M",
      "N","O","P","Q","R","S","T","U","V","W","X","Y","Z">>

DigitChars == {"0","1","2","3","4","5","6","7","8","9"}

Whitespace == {" ", "\t", "\n"}

Range(s) == {s[i] : i \in 1..Len(s)}

\* The lower-case letter of each upper-case letter.
LowerOf == [u \in Range(UpperChars) |->
                LowerChars[CHOOSE i \in 1..Len(UpperChars) : UpperChars[i] = u]]

\* String.prototype.toLowerCase on one character.
LowerChar(c) == IF c \in DOMAIN LowerOf THEN LowerOf[c] ELSE c

toLowerCase(s) == [i \in 1..Len(s) |-> LowerChar(s[i])]

\* The characters the regexp /[^a-z0-9_\-\s]/gi of normalize keeps.
KeptChars ==
    Range(LowerChars) \cup Range(UpperChars) \cup DigitChars
        \cup {"_", "-"} \cup Whitespace

IsKept(c) == c \in KeptChars

\* word.replace(/[^a-z0-9_\-\s]/gi, '')
StripChars(s) == SelectSeq(s, IsKept)

RECURSIVE TrimLeft(_)
TrimLeft(s) ==
    IF s # <<>> /\ Head(s) \in Whitespace THEN TrimLeft(Tail(s)) ELSE s

RECURSIVE TrimRight(_)
TrimRight(s) ==
    IF s # <<>> /\ s[Len(s)] \in Whitespace
    THEN TrimRight(SubSeq(s, 1, Len(s) - 1))
    ELSE s

\* $.trim and String.prototype.trim
trim(s) == TrimRight(TrimLeft(s))

\* str.split(' '): the pieces between single spaces, empty pieces included.
RECURSIVE SplitFrom(_, _)
SplitFrom(s, cur) ==
    IF s = <<>> THEN <<cur>>
    ELSE IF Head(s) = " " THEN <<cur>> \o SplitFrom(Tail(s), <<>>)
    ELSE SplitFrom(Tail(s), Append(cur, Head(s)))

split(s) == SplitFrom(s, <<>>)

\* string.indexOf(word, start) > -1, as the least position p >= start
\* (0-based) at which word occurs in string, or -1.
OccursAt(string, word, p) ==
    /\ p + Len(word) <= Len(string)
    /\ SubSeq(string, p + 1, p + Len(word)) = word

stringIndexOf(string, word, start) ==
    IF \E p \in start..Len(string) : OccursAt(string, word, p)
    THEN CHOOSE p \in start..Len(string) :
            /\ OccursAt(string, word, p)
            /\ \A q \in start..(p - 1) : ~OccursAt(string, word, q)
    ELSE -1

\* indexOf(array, item): the first 0-based position of item in array, or -1.
indexOf(array, item) ==
    IF \E i \in 1..Len(array) : array[i] = item
    THEN (CHOOSE i \in 1..Len(array) :
            /\ array[i] = item
            /\ \A j \in 1..(i - 1) : array[j] # item) - 1
    ELSE -1

\* removeFromArray(array, item): scanning from the last position down,
\* array.splice(i) with no delete count drops array[i] and all that follows.
RECURSIVE RemoveScan(_, _, _)
RemoveScan(array, item, i) ==
    IF i < 1 THEN array
    ELSE IF i <= Len(array) /\ array[i] = item
         THEN RemoveScan(SubSeq(array, 1, i - 1), item, i - 1)
         ELSE RemoveScan(array, item, i - 1)

\* A removal that takes out the last occurrence of item only.
removeFromArray_LastOnly(array, item) ==
    IF \E i \in 1..Len(array) : array[i] = item
    THEN LET i == CHOOSE i \in 1..Len(array) :
                    /\ array[i] = item
                    /\ \A j \in (i + 1)..Len(array) : array[j] # item
         IN  SubSeq(array, 1, i - 1) \o SubSeq(array, i + 1, Len(array))
    ELSE array

removeFromArray(array, item) ==
    IF Len(array) = 0 THEN array ELSE RemoveScan(array, item, Len(array))

-----------------------------------------------------------------------------
(* The normalizer and the indexer.                                         *)

stop_list ==
    << <<"a","t">>, <<"t","o">>, <<"w","e">>, <<"m","y">>, <<"a","s">>,
       <<"i","s">>, <<"i","n">>, <<"a","m">>, <<"I">>, <<"h","e">>,
       <<"s","h","e">>, <<"t","h","a","t">>, <<"t","h","e">>,
       <<"t","h","e","m">>, <<"a">> >>

\* The words of the stop list, as the set indexOf(stop_list, word) != -1
\* tests membership in.
StopWords == Range(stop_list)

\* A normalize that does not consult the stop list.
normalize_NoStopList(word) == trim(StripChars(toLowerCase(word)))

\* A normalize that keeps the case of the word.
normalize_KeepsCase(word) ==
    LET w == trim(StripChars(word))
    IN  IF w \in StopWords THEN <<>> ELSE w

normalize(word) ==
    LET w == trim(StripChars(toLowerCase(word)))
    IN  IF w \in StopWords THEN <<>> ELSE w

\* The minimum length of an indexed word.
MinWordLen == 2

HasWord(map, word) == \E i \in 1..Len(map) : map[i].word = word

PosOf(map, word) == CHOOSE i \in 1..Len(map) : map[i].word = word

\* One iteration of the loop of _index.
IndexStep(index, rawWord) ==
    LET word == normalize(rawWord)
    IN  IF Len(word) < MinWordLen THEN index
        ELSE IF HasWord(index, word)
             THEN [index EXCEPT ![PosOf(index, word)].count = @ + 1]
             ELSE Append(index, [word |-> word, weight |-> Len(word), count |-> 1])

RECURSIVE IndexLoop(_, _)
IndexLoop(index, words) ==
    IF words = <<>> THEN index
    ELSE IndexLoop(IndexStep(index, Head(words)), Tail(words))

_index(str) == IF str = <<>> THEN <<>> ELSE IndexLoop(<<>>, split(str))

-----------------------------------------------------------------------------
(* The engine.  An instance is the record [size, collection, keys]:        *)
(* collection is the sequence of word entries [word, weight, count, keys]  *)
(* in insertion order, keys (the KeyStore) a function from the stored keys *)
(* to the text last added under each.                                      *)

\* A key argument that is absent (or otherwise falsy): if (key) fails.
NoKey == ""

Truthy(key) == key # NoKey

This == [size |-> size, collection |-> collection, keys |-> keys]

EmptyStore == [k \in {} |-> <<>>]

StorePut(store, key, str) ==
    [k \in (DOMAIN store) \cup {key} |-> IF k = key THEN str ELSE store[k]]

StoreDelete(store, key) == [k \in (DOMAIN store) \ {key} |-> store[k]]

RemoveAt(seq, i) == SubSeq(seq, 1, i - 1) \o SubSeq(seq, i + 1, Len(seq))

\* One iteration of the loop of _merge.
MergeStep(this, rec, key) ==
    IF HasWord(this.collection, rec.word)
    THEN LET i == PosOf(this.collection, rec.word)
             e == this.collection[i]
         IN  [this EXCEPT !.collection[i] =
                 [e EXCEPT !.count = @ + 1,
                           !.keys = IF Truthy(key) THEN Append(@, key) ELSE @]]
    ELSE [this EXCEPT
            !.collection = Append(@, [word |-> rec.word,
                                      weight |-> rec.weight,
                                      count |-> rec.count,
                                      keys |-> IF Truthy(key) THEN <<key>> ELSE <<>>]),
            !.size = @ + 1]

RECURSIVE _merge(_, _, _)
_merge(this, index, key) ==
    IF index = <<>> THEN this
    ELSE _merge(MergeStep(this, Head(index), key), Tail(index), key)

\* A _remove iteration that decrements size for every word it finds.
RemoveStep_SizeAlways(this, rec, key) ==
    IF HasWord(this.collection, rec.word)
    THEN LET i == PosOf(this.collection, rec.word)
             e == this.collection[i]
             e2 == [e EXCEPT !.count = @ - 1,
                             !.keys = IF Truthy(key)
                                      THEN removeFromArray(@, key) ELSE @]
         IN  IF e2.count = 0
             THEN [this EXCEPT !.collection = RemoveAt(@, i), !.size = @ - 1]
             ELSE [this EXCEPT !.collection[i] = e2, !.size = @ - 1]
    ELSE this

\* A _remove iteration that deletes a word once its count is below 0.
RemoveStep_DeletesBelowZero(this, rec, key) ==
    IF HasWord(this.collection, rec.word)
    THEN LET i == PosOf(this.collection, rec.word)
             e == this.collection[i]
             e2 == [e EXCEPT !.count = @ - 1,
                             !.keys = IF Truthy(key)
                                      THEN removeFromArray(@, key) ELSE @]
         IN  IF e2.count < 0
             THEN [this EXCEPT !.collection = RemoveAt(@, i), !.size = @ - 1]
             ELSE [this EXCEPT !.collection[i] = e2]
    ELSE this

\* One iteration of the loop of _remove.
RemoveStep(this, rec, key) ==
    IF HasWord(this.collection, rec.word)
    THEN LET i == PosOf(this.collection, rec.word)
             e == this.collection[i]
             e2 == [e EXCEPT !.count = @ - 1,
                             !.keys = IF Truthy(key)
                                      THEN removeFromArray(@, key) ELSE @]
         IN  IF e2.count = 0
             THEN [this EXCEPT !.collection = RemoveAt(@, i), !.size = @ - 1]
             ELSE [this EXCEPT !.collection[i] = e2]
    ELSE this

RECURSIVE _remove(_, _, _)
_remove(this, index, key) ==
    IF index = <<>> THEN this
    ELSE _remove(RemoveStep(this, Head(index), key), Tail(index), key)

\* An add that returns at once when the text is empty.
add_IgnoresEmpty(this, str, key) ==
    IF str = <<>> THEN this
    ELSE LET stored == IF Truthy(key)
                       THEN [this EXCEPT !.keys = StorePut(@, key, str)]
                       ELSE this
         IN  _merge(stored, _index(str), key)

\* An add that keeps the text a key already stands for.
add_KeepsFirstText(this, str, key) ==
    LET stored == IF Truthy(key) /\ key \notin DOMAIN this.keys
                  THEN [this EXCEPT !.keys = StorePut(@, key, str)]
                  ELSE this
    IN  _merge(stored, _index(str), key)

add(this, str, key) ==
    LET stored == IF Truthy(key)
                  THEN [this EXCEPT !.keys = StorePut(@, key, str)]
                  ELSE this
    IN  _merge(stored, _index(str), key)

\* A remove without the early return on an empty Collection.
remove_NoSizeCheck(this, str, key) ==
    LET removed == _remove(this, _index(str), key)
    IN  IF Truthy(key)
        THEN [removed EXCEPT !.keys = StoreDelete(@, key)]
        ELSE removed

remove(this, str, key) ==
    IF this.size = 0 THEN this
    ELSE LET removed == _remove(this, _index(str), key)
         IN  IF Truthy(key)
             THEN [removed EXCEPT !.keys = StoreDelete(@, key)]
             ELSE removed

\* A clear that resets the collection and leaves the counter.
clear_KeepsSize(this) == [this EXCEPT !.collection = <<>>]

clear(this) == [this EXCEPT !.collection = <<>>, !.size = 0]

getWords(this) == [i \in 1..Len(this.collection) |-> this.collection[i].word]

-----------------------------------------------------------------------------
(* Matching.                                                               *)

\* index[word] = record: overwrite in place, or append a new property.
MapPut(map, rec) ==
    IF HasWord(map, rec.word)
    THEN [map EXCEPT ![PosOf(map, rec.word)] = rec]
    ELSE Append(map, rec)

\* The first loop of _indexAgainst: every word of the query, tagged with
\* itself as its orig.
SeedIndex(index_tmp) ==
    [i \in 1..Len(index_tmp) |->
        [word |-> index_tmp[i].word, orig |-> index_tmp[i].word,
         weight |-> index_tmp[i].weight, count |-> index_tmp[i].count]]

\* A test for the whole word in place of the prefix test.
StartsWith_Exact(word, partial) == word = partial

\* word.indexOf(partial) == 0
StartsWith(word, partial) == stringIndexOf(word, partial, 0) = 0

\* The inner loop of _indexAgainst for one Collection word.
RECURSIVE ExpandWord(_, _, _)
ExpandWord(index, word, partials) ==
    IF partials = <<>> THEN index
    ELSE LET partial == Head(partials).word
             next == IF StartsWith(word, partial)
                     THEN MapPut(index, [word |-> word, orig |-> partial,
                                         weight |-> Len(partial), count |-> 1])
                     ELSE index
         IN  ExpandWord(next, word, Tail(partials))

\* The outer loop of _indexAgainst.
RECURSIVE ExpandAll(_, _, _)
ExpandAll(index, entries, index_tmp) ==
    IF entries = <<>> THEN index
    ELSE ExpandAll(ExpandWord(index, Head(entries).word, index_tmp),
                   Tail(entries), index_tmp)

_indexAgainst(this, str) ==
    LET index_tmp == _index(str)
    IN  ExpandAll(SeedIndex(index_tmp), this.collection, index_tmp)

\* The first loop of match: the number of index entries that are their own
\* orig.
RECURSIVE CountOwnOrig(_)
CountOwnOrig(index) ==
    IF index = <<>> THEN 0
    ELSE (IF Head(index).word = Head(index).orig THEN 1 ELSE 0)
            + CountOwnOrig(Tail(index))

HasKey(map, key) == \E i \in 1..Len(map) : map[i].key = key

KeyPos(map, key) == CHOOSE i \in 1..Len(map) : map[i].key = key

\* The body of the loop over found.keys in match.
NoteKey(found_keys, key, orig) ==
    IF HasKey(found_keys, key)
    THEN IF indexOf(found_keys[KeyPos(found_keys, key)].origs, orig) = -1
         THEN [found_keys EXCEPT ![KeyPos(found_keys, key)].origs = Append(@, orig)]
         ELSE found_keys
    ELSE Append(found_keys, [key |-> key, origs |-> <<orig>>])

RECURSIVE NoteKeys(_, _, _)
NoteKeys(found_keys, word_keys, orig) ==
    IF word_keys = <<>> THEN found_keys
    ELSE NoteKeys(NoteKey(found_keys, Head(word_keys), orig), Tail(word_keys), orig)

\* The second loop of match: the keys of every index word found in the
\* collection, each with the origs that reached it.
RECURSIVE CollectKeys(_, _, _)
CollectKeys(this, found_keys, index) ==
    IF index = <<>> THEN found_keys
    ELSE LET word == Head(index).word
             next == IF HasWord(this.collection, word)
                     THEN NoteKeys(found_keys,
                                   this.collection[PosOf(this.collection, word)].keys,
                                   Head(index).orig)
                     ELSE found_keys
         IN  CollectKeys(this, next, Tail(index))

\* The while loop of _nb_keywords_found for one word.
RECURSIVE CountOccurrences(_, _, _)
CountOccurrences(string, word, start) ==
    LET p == stringIndexOf(string, word, start)
    IN  IF p > -1 THEN 1 + CountOccurrences(string, word, p + Len(word)) ELSE 0

RECURSIVE CountWords(_, _)
CountWords(string, arr_words) ==
    IF arr_words = <<>> THEN 0
    ELSE LET word == trim(Head(arr_words))
         IN  (IF word = <<>> THEN 0 ELSE CountOccurrences(string, word, 0))
                + CountWords(string, Tail(arr_words))

_nb_keywords_found(this, key, words) ==
    IF key \notin DOMAIN this.keys \/ this.keys[key] = <<>> THEN 0
    ELSE LET string == this.keys[key]
             nb_found == CountWords(string, split(words))
         IN  IF words = string THEN nb_found * nb_found ELSE nb_found

\* Array.prototype.sort with the comparator y.value - x.value, as a stable
\* sort: an element goes after every element whose value is not smaller.
RECURSIVE SortedInsert(_, _)
SortedInsert(sorted, e) ==
    IF sorted = <<>> THEN <<e>>
    ELSE IF Head(sorted).value >= e.value
         THEN <<Head(sorted)>> \o SortedInsert(Tail(sorted), e)
         ELSE <<e>> \o sorted

RECURSIVE SortLoop(_, _)
SortLoop(sorted, rest) ==
    IF rest = <<>> THEN sorted
    ELSE SortLoop(SortedInsert(sorted, Head(rest)), Tail(rest))

\* A sort with the comparator reversed: the smallest value first.
RECURSIVE Reverse(_)
Reverse(s) == IF s = <<>> THEN <<>> ELSE Append(Reverse(Tail(s)), Head(s))

_sort_assoc_array_Ascending(nb_keywords) == Reverse(SortLoop(<<>>, nb_keywords))

_sort_assoc_array(nb_keywords) == SortLoop(<<>>, nb_keywords)

KeysOf(entries) == [i \in 1..Len(entries) |-> entries[i].key]

\* The 'all' branch of match.
MatchAll(found_keys, n) ==
    LET Qualifies(e) == Len(e.origs) = n
    IN  KeysOf(SelectSeq(found_keys, Qualifies))

\* An 'any' branch that drops the keys whose relevance is 0.
MatchAny_PositiveOnly(this, found_keys, str) ==
    LET nb_keywords ==
            [i \in 1..Len(found_keys) |->
                [key |-> found_keys[i].key,
                 value |-> _nb_keywords_found(this, found_keys[i].key, str)]]
        Positive(e) == e.value > 0
    IN  KeysOf(_sort_assoc_array(SelectSeq(nb_keywords, Positive)))

\* The 'any' branch of match.
MatchAny(this, found_keys, str) ==
    LET nb_keywords ==
            [i \in 1..Len(found_keys) |->
                [key |-> found_keys[i].key,
                 value |-> _nb_keywords_found(this, found_keys[i].key, str)]]
    IN  KeysOf(_sort_assoc_array(nb_keywords))

\* An absent mode.
NoMode == ""

match(this, str, mode) ==
    LET m == IF mode = NoMode THEN "all" ELSE mode
        index == _indexAgainst(this, str)
        n == CountOwnOrig(index)
        found_keys == CollectKeys(this, <<>>, index)
    IN  IF m = "all" THEN MatchAll(found_keys, n)
        ELSE MatchAny(this, found_keys, str)

-----------------------------------------------------------------------------
(* The calls a client makes.  size, collection and keys are the fields of  *)
(* the instance; returned is the array the last call returned (empty when  *)
(* it returned the instance itself) and last the call that was made; added *)
(* is the set of (text, key) pairs passed to add so far, exact whether     *)
(* every remove so far was given such a pair, docs the number of add calls *)
(* so far whose text held each word, onlyAdds whether no remove or clear   *)
(* was called so far, ncalls the number of calls made, and step how many   *)
(* calls of the usage example of the header comment the run has made so    *)
(* far, in order and with no other call (-1 once it has left the example). *)

\* The number of calls of a run.
MaxCalls == 3

T_empty == <<>>

T_in_a == <<"i","n"," ","a">>

T_red_red == <<"r","e","d"," ","r","e","d">>

T_Red_inn == <<"R","e","d"," ","i","n","n","!">>

T_re == <<"r","e">>

Q_re_red == <<"r","e"," ","r","e","d">>

Q_red_re == <<"r","e","d"," ","r","e">>

Q_inn_tab == <<"i","n","n","\t">>

\* The texts, keys and query of the usage example (lines 15-26).
T_instant ==
    <<"I","n","s","t","a","n","t"," ","s","e","a","r","c","h"," ","i","n"," ",
      "G","o","o","g","l","e"," ","i","s"," ","a","w","e","s","o","m","e","!">>

T_install ==
    <<"I","t"," ","w","i","l","l"," ","w","o","r","k"," ","f","i","n","e"," ",
      "a","f","t","e","r"," ","y","o","u"," ","i","n","s","t","a","l","l"," ",
      "t","h","a","t"," ","p","a","t","c","h",".">>

Q_inst == <<"i","n","s","t">>

Texts == {T_empty, T_in_a, T_red_red, T_Red_inn, T_re}

Queries == Texts \cup {Q_re_red, Q_red_re, Q_inn_tab}

Keys == {"k1", "k2"}

KeyArgs == Keys \cup {NoKey}

Modes == {NoMode, "all", "any"}

Call(op, str, key, mode) == [op |-> op, str |-> str, key |-> key, mode |-> mode]

\* The usage example: two adds, a match, the remove of the first text, and
\* the match again.
UsageExample ==
    << Call("add", T_instant, "quote", NoMode),
       Call("add", T_install, "instruction", NoMode),
       Call("match", Q_inst, NoKey, NoMode),
       Call("remove", T_instant, "quote", NoMode),
       Call("match", Q_inst, NoKey, NoMode) >>

\* step after the call c.
StepAfter(c) ==
    IF step >= 0 /\ step < Len(UsageExample) /\ UsageExample[step + 1] = c
    THEN step + 1
    ELSE -1

\* The distinct words the indexer finds in a text.
WordsOf(str) ==
    LET index == _index(str)
    IN  {index[i].word : i \in 1..Len(index)}

\* docs after one more add call whose text holds the words ws.
CountDocs(d, ws) ==
    [w \in (DOMAIN d) \cup ws |->
        (IF w \in DOMAIN d THEN d[w] ELSE 0) + (IF w \in ws THEN 1 ELSE 0)]

Init ==
    /\ size = 0
    /\ collection = <<>>
    /\ keys = EmptyStore
    /\ returned = <<>>
    /\ last = Call("new", <<>>, NoKey, NoMode)
    /\ added = {}
    /\ exact = TRUE
    /\ docs = EmptyStore
    /\ onlyAdds = TRUE
    /\ ncalls = 0
    /\ step = 0

Becomes(this) ==
    /\ size' = this.size
    /\ collection' = this.collection
    /\ keys' = this.keys

AddCall(str, key) ==
    /\ Becomes(add(This, str, key))
    /\ returned' = <<>>
    /\ last' = Call("add", str, key, NoMode)
    /\ step' = StepAfter(last')
    /\ added' = added \cup {<<str, key>>}
    /\ docs' = CountDocs(docs, WordsOf(str))
    /\ ncalls' = ncalls + 1
    /\ UNCHANGED <<exact, onlyAdds>>

RemoveCall(str, key) ==
    /\ Becomes(remove(This, str, key))
    /\ returned' = <<>>
    /\ last' = Call("remove", str, key, NoMode)
    /\ step' = StepAfter(last')
    /\ exact' = (exact /\ <<str, key>> \in added)
    /\ onlyAdds' = FALSE
    /\ ncalls' = ncalls + 1
    /\ UNCHANGED <<added, docs>>

ClearCall ==
    /\ Becomes(clear(This))
    /\ returned' = <<>>
    /\ last' = Call("clear", <<>>, NoKey, NoMode)
    /\ step' = StepAfter(last')
    /\ onlyAdds' = FALSE
    /\ ncalls' = ncalls + 1
    /\ UNCHANGED <<added, exact, docs>>

GetWordsCall ==
    /\ returned' = getWords(This)
    /\ last' = Call("getWords", <<>>, NoKey, NoMode)
    /\ step' = StepAfter(last')
    /\ ncalls' = ncalls + 1
    /\ UNCHANGED <<size, collection, keys, added, exact, docs, onlyAdds>>

\* A match whose expansion entries are the entries of the Collection
\* themselves, so that tagging them (weight: partial.length) writes into it.
MatchCall_TagsCollection(str, mode) ==
    /\ returned' = match(This, str, mode)
    /\ collection' =
        [i \in 1..Len(collection) |->
            LET index == _indexAgainst(This, str)
                word == collection[i].word
            IN  IF HasWord(index, word)
                THEN [collection[i] EXCEPT !.weight = index[PosOf(index, word)].weight]
                ELSE collection[i]]
    /\ last' = Call("match", str, NoKey, mode)
    /\ step' = StepAfter(last')
    /\ ncalls' = ncalls + 1
    /\ UNCHANGED <<size, keys, added, exact, docs, onlyAdds>>

MatchCall(str, mode) ==
    /\ returned' = match(This, str, mode)
    /\ last' = Call("match", str, NoKey, mode)
    /\ step' = StepAfter(last')
    /\ ncalls' = ncalls + 1
    /\ UNCHANGED <<size, collection, keys, added, exact, docs, onlyAdds>>

\* The calls of a run of at most MaxCalls calls.
Add(str, key) == ncalls < MaxCalls /\ AddCall(str, key)

Remove(str, key) == ncalls < MaxCalls /\ RemoveCall(str, key)

Clear == ncalls < MaxCalls /\ ClearCall

GetWords == ncalls < MaxCalls /\ GetWordsCall

Match(str, mode) == ncalls < MaxCalls /\ MatchCall(str, mode)

Next ==
    \/ \E str \in Texts, key \in KeyArgs : Add(str, key)
    \/ \E str \in Texts, key \in KeyArgs : Remove(str, key)
    \/ Clear
    \/ GetWords
    \/ \E str \in Queries, mode \in Modes : Match(str, mode)

Spec == Init /\ [][Next]_vars

\* The number of calls of a run over the inputs of the usage example.
MaxExampleCalls == 5

ExampleTexts == {T_instant, T_install}

ExampleKeys == {"quote", "instruction"}

\* The calls of the usage example, made in any order and any number of
\* times.
ExampleAdd(str, key) == ncalls < MaxExampleCalls /\ AddCall(str, key)

ExampleRemove(str, key) == ncalls < MaxExampleCalls /\ RemoveCall(str, key)

ExampleClear == ncalls < MaxExampleCalls /\ ClearCall

ExampleGetWords == ncalls < MaxExampleCalls /\ GetWordsCall

ExampleMatch(str, mode) == ncalls < MaxExampleCalls /\ MatchCall(str, mode)

NextExample ==
    \/ \E str \in ExampleTexts, key \in ExampleKeys : ExampleAdd(str, key)
    \/ \E str \in ExampleTexts, key \in ExampleKeys : ExampleRemove(str, key)
    \/ ExampleClear
    \/ ExampleGetWords
    \/ \E mode \in Modes : ExampleMatch(Q_inst, mode)

SpecExample == Init /\ [][NextExample]_vars

-----------------------------------------------------------------------------
(* Properties.                                                             *)

Entries == Range(collection)

EntriesOf(this) == Range(this.collection)

WordSet(this) == {e.word : e \in EntriesOf(this)}

EntryOf(this, word) == this.collection[PosOf(this.collection, word)]

KeysOfWord(this, word) ==
    IF HasWord(this.collection, word) THEN EntryOf(this, word).keys ELSE <<>>

Without(list, key) ==
    LET Other(k) == k # key
    IN  SelectSeq(list, Other)

\* C1: from any reachable state, add(T, K) followed immediately by
\* remove(T, K) restores size, every Collection entry and the KeyStore.
C1_RoundTrip ==
    \A str \in Texts, key \in KeyArgs :
        remove(add(This, str, key), str, key) = This

\* C2: remove(T, K) with a key K only takes K out of keys lists: in a word
\* of T that stays in the Collection the other keys are kept in the same
\* order, and the entries of the words not in T are unchanged.
C2_RemoveKeepsOtherKeys ==
    \A str \in Texts, key \in Keys :
        LET after == remove(This, str, key)
        IN  \A e \in Entries :
                IF e.word \in WordsOf(str)
                THEN HasWord(after.collection, e.word)
                        => KeysOfWord(after, e.word) = Without(e.keys, key)
                ELSE /\ HasWord(after.collection, e.word)
                     /\ KeysOfWord(after, e.word) = e.keys

\* The keys that satisfy every token of a query: some Collection word
\* starts with the token and lists the key.
Satisfies(this, key, token) ==
    \E e \in EntriesOf(this) :
        /\ OccursAt(e.word, token, 0)
        /\ key \in Range(e.keys)

\* C3: match(query, 'all') returns a key K if and only if every distinct
\* normalized query token is the prefix of some Collection word that has K
\* in its keys list (stated for the queries that hold a token at all).
C3_AllModeIff ==
    \A q \in Queries, key \in Keys :
        WordsOf(q) # {} =>
            (key \in Range(match(This, q, "all"))
                <=> \A token \in WordsOf(q) : Satisfies(This, key, token))

\* C4: after any sequence of add, remove and clear calls the size counter
\* equals the number of distinct words in the Collection.
C4_SizeInvariant ==
    /\ size = Cardinality(WordSet(This))
    /\ size = Len(collection)

\* A remove of a text that was never added left words in the Collection.
C4_Witness ==
    /\ last.op = "remove"
    /\ ~exact
    /\ size >= 2

\* Every key in a keys list has an entry in the KeyStore.
KeyStoreInvariant ==
    \A e \in Entries : Range(e.keys) \subseteq DOMAIN keys

\* No key was passed to add with two different texts.
OneTextPerKey ==
    \A p \in added, q \in added :
        (Truthy(p[2]) /\ p[2] = q[2]) => p[1] = q[1]

\* C5 as stated: when every remove was given a (text, key) pair previously
\* passed to add, every key in a keys list has an entry in the KeyStore.
C5_KeyStoreInvariant_Original == exact => KeyStoreInvariant

\* C5: when every remove was given a (text, key) pair previously passed to
\* add and no key was passed to add with two different texts, every key in
\* a keys list has an entry in the KeyStore.
C5_KeyStoreInvariant == (exact /\ OneTextPerKey) => KeyStoreInvariant

\* A remove with a key took it off a word that another key still lists.
C5_Witness ==
    /\ exact
    /\ OneTextPerKey
    /\ last.op = "remove"
    /\ Truthy(last.key)
    /\ \E e \in Entries : e.word \in WordsOf(last.str) /\ e.keys # <<>>

\* C6: for a Collection word W and a prefix P of W of length >= 2 that
\* normalize leaves unchanged, match(P, 'all') returns every key of W.
C6_PrefixContainment ==
    \A e \in Entries :
        \A n \in MinWordLen..Len(e.word) :
            LET P == SubSeq(e.word, 1, n)
            IN  normalize(P) = P
                    => Range(e.keys) \subseteq Range(match(This, P, "all"))

\* match was called in ALL mode with a proper prefix of a word that has keys.
C6_Witness ==
    /\ last.op = "match"
    /\ last.mode # "any"
    /\ \E e \in Entries :
        /\ e.keys # <<>>
        /\ Len(last.str) < Len(e.word)
        /\ last.str = SubSeq(e.word, 1, Len(last.str))
        /\ Range(e.keys) \subseteq Range(returned)

\* C7: every key match(query, 'all') returns, match(query, 'any') returns.
C7_AllSubsetOfAny ==
    \A q \in Queries :
        Range(match(This, q, "all")) \subseteq Range(match(This, q, "any"))

\* match in ALL mode returned some of the keys ANY mode returns, not all.
C7_Witness ==
    /\ last.op = "match"
    /\ last.mode = "all"
    /\ returned # <<>>
    /\ Range(match(This, last.str, "any")) \ Range(returned) # {}

\* C8: after add calls only, the count of a word is the number of add
\* calls whose text held the word.
C8_DocumentFrequency ==
    onlyAdds => \A e \in Entries : e.count = docs[e.word]

\* C9: after clear() the Collection is empty, size is 0 and getWords()
\* returns the empty sequence; a second clear() changes nothing; clear()
\* leaves the KeyStore as it was.
C9_Clear ==
    /\ LET cleared == clear(This)
       IN  /\ cleared.collection = <<>>
           /\ cleared.size = 0
           /\ getWords(cleared) = <<>>
           /\ clear(cleared) = cleared
           /\ cleared.keys = keys
    /\ last.op = "clear" => (collection = <<>> /\ size = 0)

\* clear() emptied a Collection and the text stored under a key remains.
C9_Witness ==
    /\ last.op = "clear"
    /\ size = 0
    /\ \E k \in DOMAIN keys : WordsOf(keys[k]) # {}

C11_EmptyTextNoOp_Original ==
    \A key \in KeyArgs :
        /\ add(This, T_empty, key) = This
        /\ remove(This, T_empty, key) = This

\* C11: add('', K) and remove('', K) leave the Collection and the size
\* counter unchanged, and without a key the KeyStore too; with a key K,
\* add('', K) stores the empty text under K, and remove('', K) deletes the
\* entry of K unless size is 0.
C11_EmptyTextNoOp ==
    \A key \in KeyArgs :
        LET a == add(This, T_empty, key)
            r == remove(This, T_empty, key)
        IN  /\ a.collection = collection /\ a.size = size
            /\ r.collection = collection /\ r.size = size
            /\ ~Truthy(key) => (a.keys = keys /\ r.keys = keys)
            /\ Truthy(key) =>
                /\ a.keys = StorePut(keys, key, <<>>)
                /\ r.keys = IF size = 0 THEN keys ELSE StoreDelete(keys, key)

\* add('', K) was called on a Collection that holds words, and K now
\* stands for the empty text.
C11_Witness ==
    /\ last.op = "add"
    /\ last.str = T_empty
    /\ Truthy(last.key)
    /\ size > 0
    /\ keys[last.key] = <<>>

\* The places (0-based) at which word occurs in text.
Occurrences(text, word) == {p \in 0..Len(text) : OccursAt(text, word, p)}

\* No two places of P are closer than n.
Apart(P, n) == \A p \in P, q \in P : p < q => q - p >= n

\* The number of occurrences of word in text that do not overlap.
OccurrenceCount(text, word) ==
    LET fits == {Cardinality(P) : P \in {Q \in SUBSET Occurrences(text, word) :
                                            Apart(Q, Len(word))}}
    IN  CHOOSE n \in fits : \A m \in fits : m <= n

\* The raw tokens of a query: its pieces between spaces, trimmed, the empty
\* ones left out.
RawTokens(q) ==
    LET pieces == split(q)
        NonEmpty(t) == t # <<>>
    IN  SelectSeq([i \in 1..Len(pieces) |-> trim(pieces[i])], NonEmpty)

RECURSIVE SumOccurrences(_, _)
SumOccurrences(text, tokens) ==
    IF tokens = <<>> THEN 0
    ELSE OccurrenceCount(text, Head(tokens)) + SumOccurrences(text, Tail(tokens))

\* The relevance of a stored text for a query: the occurrences of the raw
\* query tokens in it, squared when the query is the text.
Relevance(text, q) ==
    LET n == SumOccurrences(text, RawTokens(q))
    IN  IF q = text THEN n * n ELSE n

\* The relevance of a key: 0 when it has no stored text.
RelevanceOfKey(this, key, q) ==
    IF key \in DOMAIN this.keys THEN Relevance(this.keys[key], q) ELSE 0

\* The keys listed by some Collection word that starts with a token of q.
KeysReached(this, q) ==
    LET tokens == WordsOf(q)
    IN  {key \in Keys : \E token \in tokens : Satisfies(this, key, token)}

\* C12: match(query, 'any') returns exactly the keys listed by a Collection
\* word that has some query token as prefix, each once, in an order in
\* which the relevance never increases.
C12_AnyMode ==
    \A q \in Queries :
        LET r == match(This, q, "any")
        IN  /\ Range(r) = KeysReached(This, q)
            /\ \A i \in 1..Len(r), j \in 1..Len(r) : r[i] = r[j] => i = j
            /\ \A i \in 1..(Len(r) - 1) :
                RelevanceOfKey(This, r[i], q) >= RelevanceOfKey(This, r[i + 1], q)

\* match in ANY mode returned two keys, the second listed before the first
\* in the Collection and less relevant: the sort moved them.
C12_Witness ==
    /\ last.op = "match"
    /\ last.mode = "any"
    /\ Len(returned) = 2
    /\ RelevanceOfKey(This, returned[1], last.str)
            > RelevanceOfKey(This, returned[2], last.str)
    /\ \E e \in Entries : e.keys = <<returned[2], returned[1]>>

\* A token that is not indexed: lower-cased, stripped and trimmed it is on
\* the stop list or shorter than 2 characters.
NotIndexed(token) ==
    LET w == trim(StripChars(toLowerCase(token)))
    IN  \/ w \in StopWords
        \/ Len(w) < MinWordLen

\* C13: add(T, K) where every space-separated token of T normalizes to a
\* stop-list word or to fewer than 2 characters leaves the Collection and its
\* size unchanged.
C13_StopWordExclusion ==
    \A str \in Texts :
        LET pieces == split(str)
        IN  (\A i \in 1..Len(pieces) : NotIndexed(pieces[i]))
                => \A key \in KeyArgs :
                    LET a == add(This, str, key)
                    IN  a.collection = collection /\ a.size = size

\* add was called with a text of stop words only on a Collection that holds
\* words.
C13_Witness ==
    /\ last.op = "add"
    /\ last.str = T_in_a
    /\ size > 0
    /\ \A e \in Entries : e.word \notin {<<"i","n">>, <<"a">>}

\* C14: on a fresh instance, after add('Instant search in Google is
\* awesome!', 'quote') and add('It will work fine after you install that
\* patch.', 'instruction'), match('inst') returns <<'quote', 'instruction'>>;
\* after remove('Instant search in Google is awesome!', 'quote') on top,
\* match('inst') returns <<'instruction'>>.
C14_UsageExample ==
    /\ step = 3 => returned = <<"quote", "instruction">>
    /\ step = 5 => returned = <<"instruction">>

\* The five calls of the usage example were made.
C14_Witness ==
    /\ step = 5
    /\ last = Call("match", Q_inst, NoKey, NoMode)
    /\ returned = <<"instruction">>

\* The distinct words of length >= 2 that the tokens of a query normalize to.
DistinctTokens(q) ==
    {w \in {normalize(split(q)[i]) : i \in 1..Len(split(q))} : Len(w) >= MinWordLen}

\* C15: the number of expansion entries that are their own orig, which
\* match compares against in ALL mode, is the number of distinct query
\* tokens that normalize to a word of length >= 2.
C15_QueryWordCount ==
    \A q \in Queries :
        CountOwnOrig(_indexAgainst(This, q)) = Cardinality(DistinctTokens(q))

\* The instance after clear() and add(T2, K).
Readded(this, T2, K) == add(clear(this), T2, K)

\* C16 as stated: after add(T1, K), clear(), add(T2, K) with T2 # T1 the
\* relevance of K is computed against the stale text T1.
C16_StaleText_Original ==
    (last.op = "add" /\ Truthy(last.key)) =>
        \A T2 \in Texts \ {last.str}, q \in Queries :
            _nb_keywords_found(Readded(This, T2, last.key), last.key, q)
                = Relevance(last.str, q)

\* C16: after add(T1, K), clear(), add(T2, K) with T2 # T1 the relevance of
\* K is computed against T2, the text of the latest add; the stale text T1
\* stands for K after clear() only until K is added again.
C16_StaleText ==
    (last.op = "add" /\ Truthy(last.key)) =>
        /\ keys[last.key] = last.str
        /\ clear(This).keys[last.key] = last.str
        /\ \A T2 \in Texts \ {last.str} :
            LET again == Readded(This, T2, last.key)
            IN  /\ again.keys[last.key] = T2
                /\ \A q \in Queries :
                    _nb_keywords_found(again, last.key, q) = Relevance(T2, q)

\* A key was added, the Collection emptied, and the key added again with
\* another text, which is the text it now stands for.
C16_Witness ==
    /\ last.op = "add"
    /\ Truthy(last.key)
    /\ ~onlyAdds
    /\ \E p \in added : p[2] = last.key /\ p[1] # last.str /\ WordsOf(p[1]) # {}
    /\ WordSet(This) = WordsOf(last.str)
    /\ WordsOf(last.str) # {}
    /\ keys[last.key] = last.str

\* The query made of the tokens a and b with a space between them.
TwoTokens(a, b) == a \o <<" ">> \o b

\* Query tokens, two of them prefixes of a third.
QueryTokens == {<<"r","e">>, <<"r","e","d">>, <<"i","n","n">>}

\* C17: ALL-mode matching does not depend on the order of the query tokens:
\* match('a b', 'all') and match('b a', 'all') return the same set of keys.
C17_TokenOrder ==
    \A a \in QueryTokens, b \in QueryTokens :
        Range(match(This, TwoTokens(a, b), "all"))
            = Range(match(This, TwoTokens(b, a), "all"))

\* C18: match leaves the Collection, the size counter and the KeyStore
\* unchanged, for any query and mode.
C18_MatchReadOnly ==
    [][last'.op = "match" =>
        (size' = size /\ collection' = collection /\ keys' = keys)]_vars

\* match was called in ANY mode on a Collection that holds words with keys
\* and returned some.
C18_Witness ==
    /\ last.op = "match"
    /\ last.mode = "any"
    /\ returned # <<>>
    /\ size > 0
    /\ keys # EmptyStore

\* C19: every word in the Collection has count >= 1 and a weight equal to
\* its number of characters.
C19_CountAndWeight ==
    \A e \in Entries :
        /\ e.count >= 1
        /\ e.weight = Len(e.word)

\* A remove decremented a word that stays in the Collection.
C19_Witness ==
    /\ last.op = "remove"
    /\ exact
    /\ \E e \in Entries :
        /\ e.word \in WordsOf(last.str)
        /\ e.count >= 1

====
